---- MODULE Spec2Model ----
(***************************************************************************)
(* A model of the aisdr webhook relay (src/aisdr.py) and of its telemetry  *)
(* header resolution (src/otel_setup.py).                                  *)
(*                                                                         *)
(* Texts are sequences of strings: single characters where the code looks  *)
(* at characters (split, strip, substring tests, percent-encoding), and    *)
(* whole literals where it only passes a text on.                          *)
(***************************************************************************)
EXTENDS Integers, Sequences, FiniteSets, TLC

VARIABLES
    processed_events,   \* aisdr.py:24, the seen-event registry
    req,                \* one record per HTTP delivery (request thread)
    bg,                 \* one record per background thread (unit), keyed by its request
    custom_metrics,     \* the nine instruments: attribute label -> number of add/record calls
    environ,            \* os.environ, the three header variables of get_otlp_headers
    exporters,          \* headers handed to each exporter family at bootstrap
    log_records,        \* diagnostics emitted through logging by get_otlp_headers
    boot,               \* position of setup_observability
    handles,            \* tracer, meter, custom_metrics: the locals setup_observability returns
    globals,            \* otel_setup.py:347-349, the module globals the accessors cache in
    accessed,           \* what each accessor returned, call by call
    heap,               \* number of objects created so far (object identity)
    stages              \* the stages of setup_observability carried out, in order

vars == <<processed_events, req, bg, custom_metrics, environ, exporters, log_records, boot,
          handles, globals, accessed, heap, stages>>

webVars == <<processed_events, req, bg, custom_metrics>>
otelVars == <<environ, exporters, log_records, boot, handles, globals, accessed, heap, stages>>

----------------------------------------------------------------------------
(* Bounds *)

NumReq == 2
NumReplay == 4
MaxSegments == 3
MaxCalls == 2

Requests == 1..NumReq

\* one delivery and its replays
ReplayRequests == 1..(NumReplay + 1)

----------------------------------------------------------------------------
(* Text helpers: Python str methods on sequences of characters *)

IsSpace(c) == c \in {" ", "\n", "\t"}

RECURSIVE LStrip(_)
LStrip(s) == IF s # <<>> /\ IsSpace(Head(s)) THEN LStrip(Tail(s)) ELSE s

RECURSIVE RStrip(_)
RStrip(s) == IF s # <<>> /\ IsSpace(s[Len(s)]) THEN RStrip(SubSeq(s, 1, Len(s) - 1)) ELSE s

\* str.strip()
Strip(s) == RStrip(LStrip(s))

\* s[i..] starts with pat
StartsAt(s, i, pat) ==
    /\ i + Len(pat) - 1 <= Len(s)
    /\ SubSeq(s, i, i + Len(pat) - 1) = pat

\* pat in s
Contains(s, pat) == \E i \in 1..(Len(s) + 1) : StartsAt(s, i, pat)

\* index of the first occurrence of pat in s at or after i, 0 when there is none
RECURSIVE Find(_, _, _)
Find(s, i, pat) ==
    IF i + Len(pat) - 1 > Len(s) THEN 0
    ELSE IF StartsAt(s, i, pat) THEN i
    ELSE Find(s, i + 1, pat)

\* s.split(pat), every occurrence
RECURSIVE Split(_, _)
Split(s, pat) ==
    LET k == Find(s, 1, pat) IN
    IF k = 0 THEN <<s>>
    ELSE <<SubSeq(s, 1, k - 1)>> \o Split(SubSeq(s, k + Len(pat), Len(s)), pat)

\* s.split(pat, 1)
Split1(s, pat) ==
    LET k == Find(s, 1, pat) IN
    IF k = 0 THEN <<s>>
    ELSE <<SubSeq(s, 1, k - 1), SubSeq(s, k + Len(pat), Len(s))>>

----------------------------------------------------------------------------
(* Field extraction of process_user_input *)

NameLabel == <<"N", "a", "m", "e", ":">>
PositionLabel == <<"P", "o", "s", "i", "t", "i", "o", "n", ":">>
CompetitorLabel == <<"C", "o", "m", "p", "e", "t", "i", "t", "o", "r", ":">>

DefaultName == <<"J", "a", "c", "k">>
DefaultPosition == <<"C", "T", "O">>
DefaultCompetitor == <<"D", "a", "t", "a", "d", "o", "g">>

DefaultFields ==
    [name |-> DefaultName, position |-> DefaultPosition, competitor_tool |-> DefaultCompetitor]

\* a faulty variant: the extracted values are not stripped
ParsePartNoStrip(fields, part) ==
    IF Contains(part, NameLabel)
    THEN [fields EXCEPT !.name = Split(part, NameLabel)[2]]
    ELSE IF Contains(part, PositionLabel)
    THEN [fields EXCEPT !.position = Split(part, PositionLabel)[2]]
    ELSE IF Contains(part, CompetitorLabel)
    THEN [fields EXCEPT !.competitor_tool = Split(part, CompetitorLabel)[2]]
    ELSE fields

\* a faulty variant: a field that was extracted once is not overwritten
ParsePartFirstWins(fields, part) ==
    IF Contains(part, NameLabel)
    THEN (IF fields.name # DefaultName THEN fields
          ELSE [fields EXCEPT !.name = Strip(Split(part, NameLabel)[2])])
    ELSE IF Contains(part, PositionLabel)
    THEN (IF fields.position # DefaultPosition THEN fields
          ELSE [fields EXCEPT !.position = Strip(Split(part, PositionLabel)[2])])
    ELSE IF Contains(part, CompetitorLabel)
    THEN (IF fields.competitor_tool # DefaultCompetitor THEN fields
          ELSE [fields EXCEPT !.competitor_tool = Strip(Split(part, CompetitorLabel)[2])])
    ELSE fields

\* one iteration of the for loop: the if / elif / elif chain on one part
ParsePart(fields, part) ==
    IF Contains(part, NameLabel)
    THEN [fields EXCEPT !.name = Strip(Split(part, NameLabel)[2])]
    ELSE IF Contains(part, PositionLabel)
    THEN [fields EXCEPT !.position = Strip(Split(part, PositionLabel)[2])]
    ELSE IF Contains(part, CompetitorLabel)
    THEN [fields EXCEPT !.competitor_tool = Strip(Split(part, CompetitorLabel)[2])]
    ELSE fields

\* a faulty variant: the loop stops after the first part
ParsePartsFirstOnly(fields, parts) ==
    IF parts = <<>> THEN fields ELSE ParsePart(fields, Strip(Head(parts)))

\* lines 169-176: the comprehension strips every part, the loop visits them in order
RECURSIVE ParseParts(_, _)
ParseParts(fields, parts) ==
    IF parts = <<>> THEN fields
    ELSE ParseParts(ParsePart(fields, Strip(Head(parts))), Tail(parts))

ParseFields(user_message) == ParseParts(DefaultFields, Split(user_message, <<",">>))


----------------------------------------------------------------------------
(* Payloads the chat platform and the completion provider can send *)

Absent == "~absent"

\* Python truthiness of data.get("event_id"): a missing key and "" are both falsy
Truthy(v) == v \notin {Absent, ""}

TextBo ==
    NameLabel \o <<" ", "B", "o", ",", " ">> \o CompetitorLabel
        \o <<" ", "S", "p", "l", "u", "n", "k">>
TextPlain == <<"h", "i">>

Splunk == <<"S", "p", "l", "u", "n", "k">>

NoEvent == [type |-> Absent, bot_id |-> FALSE, subtype |-> FALSE, text |-> <<>>, channel |-> Absent]
MentionBo == [type |-> "app_mention", bot_id |-> FALSE, subtype |-> FALSE, text |-> TextBo, channel |-> "C1"]
MessagePlain == [type |-> "message", bot_id |-> FALSE, subtype |-> FALSE, text |-> TextPlain, channel |-> "C2"]

BoDelivery == [challenge |-> Absent, event_id |-> "E1", event |-> MentionBo]

EventPayloads ==
    { [challenge |-> "tok", event_id |-> Absent, event |-> NoEvent],
      [challenge |-> "", event_id |-> "E1", event |-> MentionBo],
      BoDelivery,
      [challenge |-> Absent, event_id |-> "E1", event |-> [MentionBo EXCEPT !.type = "reaction_added"]],
      [challenge |-> Absent, event_id |-> "E2", event |-> [MessagePlain EXCEPT !.bot_id = TRUE]],
      [challenge |-> Absent, event_id |-> "", event |-> [MessagePlain EXCEPT !.subtype = TRUE]],
      [challenge |-> Absent, event_id |-> Absent, event |-> NoEvent] }

SlashForms == { [text |-> TextPlain, response_url |-> "U1"] }

\* slash commands that differ in text and in response_url
SlashFormsTwo == SlashForms \cup { [text |-> TextBo, response_url |-> "U2"] }

NoData == [none |-> TRUE]
NoResp == [none |-> TRUE]
Ack == [status |-> "ok"]

\* choices[0].message.content values the provider may return
Completions == { <<" ", "Dear prospect", "\n">> }

ApologyError == <<"Sorry, I couldn't process your request at the moment.">>
ApologyNoChoices == <<"Sorry, I couldn't generate a response right now.">>

\* the texts a delivery can carry
Texts == {TextBo, TextPlain, <<>>}

\* comma-separated segments a prospect description is made of
Segments ==
    { <<"N", "a", "m", "e", ":", " ", "A", "d", "a">>,
      <<" ", "P", "o", "s", "i", "t", "i", "o", "n", ":", " ", "F", "o", "u", "n", "d", "e", "r">>,
      <<" ", "C", "o", "m", "p", "e", "t", "i", "t", "o", "r", ":", " ", "R", "i", "v", "a", "l">>,
      <<" ", "h", "i", " ">>,
      <<" ", "n", "a", "m", "e", ":", " ", "x">>,
      <<"N", "a", "m", "e", ":", "B", "o", " ">>,
      <<"P", "o", "s", "i", "t", "i", "o", "n", ":", "Q", "A", " ", "N", "a", "m", "e", ":", "C", "y">> }

RECURSIVE Join(_)
Join(segments) ==
    IF segments = <<>> THEN <<>>
    ELSE IF Len(segments) = 1 THEN segments[1]
    ELSE segments[1] \o <<",">> \o Join(Tail(segments))

\* every text of at most MaxSegments segments
ExtractTexts == { Join(q) : q \in UNION { [1..n -> Segments] : n \in 0..MaxSegments } }

ExtractForms == { [text |-> t, response_url |-> "U1"] : t \in ExtractTexts }

\* process_user_input's extraction tabulated on the texts
FieldsOf == [t \in Texts \cup ExtractTexts |-> ParseFields(t)]

\* span attributes not set yet
NoFields == [name |-> <<Absent>>, position |-> <<Absent>>, competitor_tool |-> <<Absent>>]

----------------------------------------------------------------------------
(* Instruments: a counter or histogram is the number of add/record calls per label *)

NoAttr == "-"

InstrumentNames ==
    { "slack_events_counter", "slack_slash_commands_counter", "openai_requests_counter",
      "openai_request_duration", "slack_messages_counter", "emails_generated_counter",
      "processing_errors_counter", "background_tasks_counter", "background_task_duration" }

Count(m, name, label) == IF label \in DOMAIN m[name] THEN m[name][label] ELSE 0

Add(m, name, label) ==
    [m EXCEPT ![name] =
        IF label \in DOMAIN @ THEN [@ EXCEPT ![label] = @ + 1] ELSE @ @@ (label :> 1)]

RECURSIVE SumOver(_, _)
SumOver(f, S) ==
    IF S = {} THEN 0
    ELSE LET x == CHOOSE y \in S : TRUE IN f[x] + SumOver(f, S \ {x})

Total(m, name) == SumOver(m[name], DOMAIN m[name])

\* several add/record calls in program order, each a pair <<instrument, label>>
RECURSIVE AddAll(_, _)
AddAll(m, calls) ==
    IF calls = <<>> THEN m ELSE AddAll(Add(m, Head(calls)[1], Head(calls)[2]), Tail(calls))


----------------------------------------------------------------------------
(* State after construction: module import of aisdr.py has run *)

IdleReq == [pc |-> "idle", route |-> "none", data |-> NoData, resp |-> NoResp,
            class |-> "none"]

NoUnit == [pc |-> "none", type |-> "none", text |-> <<>>, dest |-> Absent,
           fields |-> NoFields,
           response_text |-> <<>>, completion |-> "none", hung |-> FALSE,
           calls |-> 0, sent |-> <<>>, success |-> "unset", error |-> "unset"]

WebInit ==
    /\ processed_events = {}
    /\ req = [r \in Requests |-> IdleReq]
    /\ bg = [r \in Requests |-> NoUnit]
    /\ custom_metrics = [n \in InstrumentNames |-> <<>>]

\* Flask hands deliveries to threads; threads are taken in index order
NextThread(r) == req[r].pc = "idle" /\ \A q \in DOMAIN req : q < r => req[q].pc # "idle"

----------------------------------------------------------------------------
(* slack_events, aisdr.py:78-132 *)

\* a faulty variant: the key test written as a truthiness test, data.get("challenge")
HasChallengeTruthy(data) == Truthy(data.challenge)

\* line 87: "challenge" in data
HasChallenge(data) == data.challenge # Absent

\* a faulty variant: the registry is asked for a key the payload does not carry
AlreadySeenWrongKey(event_id, registry) == Absent \in registry

\* line 95: event_id in processed_events
AlreadySeen(event_id, registry) == event_id \in registry

\* lines 105-117: the three ignore checks
Ignorable(event) ==
    \/ event.type \notin {"message", "app_mention"}
    \/ event.bot_id
    \/ event.subtype

\* lines 80-85: a delivery enters the handler
EventsReceive(r, data) ==
    /\ NextThread(r)
    /\ req' = [req EXCEPT ![r] = [@ EXCEPT !.pc = "entered", !.route = "events",
                                          !.data = data]]
    /\ custom_metrics' = Add(custom_metrics, "slack_events_counter", NoAttr)
    /\ UNCHANGED <<processed_events, bg, otelVars>>

\* lines 87-90
EventsChallenge(r) ==
    /\ req[r].pc = "entered" /\ req[r].route = "events"
    /\ HasChallenge(req[r].data)
    /\ req' = [req EXCEPT ![r] = [@ EXCEPT !.pc = "done", !.class = "HandshakeEcho",
                                          !.resp = [challenge |-> req[r].data.challenge]]]
    /\ UNCHANGED <<processed_events, bg, custom_metrics, otelVars>>

\* lines 92-93 with a falsy event_id
EventsNoId(r) ==
    /\ req[r].pc = "entered" /\ req[r].route = "events"
    /\ ~HasChallenge(req[r].data)
    /\ ~Truthy(req[r].data.event_id)
    /\ req' = [req EXCEPT ![r] = [@ EXCEPT !.pc = "classify"]]
    /\ UNCHANGED <<processed_events, bg, custom_metrics, otelVars>>

\* lines 95-98: the membership test finds the identifier
EventsDuplicate(r) ==
    /\ req[r].pc = "entered" /\ req[r].route = "events"
    /\ ~HasChallenge(req[r].data)
    /\ Truthy(req[r].data.event_id)
    /\ AlreadySeen(req[r].data.event_id, processed_events)
    /\ req' = [req EXCEPT ![r] = [@ EXCEPT !.pc = "done", !.class = "Duplicate", !.resp = Ack]]
    /\ UNCHANGED <<processed_events, bg, custom_metrics, otelVars>>

\* line 95: the membership test does not find the identifier
EventsNotSeen(r) ==
    /\ req[r].pc = "entered" /\ req[r].route = "events"
    /\ ~HasChallenge(req[r].data)
    /\ Truthy(req[r].data.event_id)
    /\ ~AlreadySeen(req[r].data.event_id, processed_events)
    /\ req' = [req EXCEPT ![r] = [@ EXCEPT !.pc = "insert"]]
    /\ UNCHANGED <<processed_events, bg, custom_metrics, otelVars>>

\* a faulty variant: the identifier is registered only once the event is known to be actionable
EventsAddIfActionable(r) ==
    /\ req[r].pc = "insert"
    /\ processed_events' = IF Ignorable(req[r].data.event) THEN processed_events
                           ELSE processed_events \cup {req[r].data.event_id}
    /\ req' = [req EXCEPT ![r] = [@ EXCEPT !.pc = "classify"]]
    /\ UNCHANGED <<bg, custom_metrics, otelVars>>

\* a faulty variant: the registry keeps the latest identifier only
EventsAddEvicting(r) ==
    /\ req[r].pc = "insert"
    /\ processed_events' = {req[r].data.event_id}
    /\ req' = [req EXCEPT ![r] = [@ EXCEPT !.pc = "classify"]]
    /\ UNCHANGED <<bg, custom_metrics, otelVars>>

\* line 99: processed_events.add(event_id), a separate step of the thread
EventsAdd(r) ==
    /\ req[r].pc = "insert"
    /\ processed_events' = processed_events \cup {req[r].data.event_id}
    /\ req' = [req EXCEPT ![r] = [@ EXCEPT !.pc = "classify"]]
    /\ UNCHANGED <<bg, custom_metrics, otelVars>>

\* lines 101-117
EventsIgnored(r) ==
    /\ req[r].pc = "classify"
    /\ Ignorable(req[r].data.event)
    /\ req' = [req EXCEPT ![r] = [@ EXCEPT !.pc = "done", !.class = "Ignored", !.resp = Ack]]
    /\ UNCHANGED <<processed_events, bg, custom_metrics, otelVars>>

\* lines 119-130: threading.Thread(target=background_process, ...).start()
EventsDispatch(r) ==
    /\ req[r].pc = "classify"
    /\ ~Ignorable(req[r].data.event)
    /\ bg' = [bg EXCEPT ![r] = [NoUnit EXCEPT !.pc = "started", !.type = "event",
                                              !.text = req[r].data.event.text,
                                              !.dest = req[r].data.event.channel]]
    /\ req' = [req EXCEPT ![r] = [@ EXCEPT !.pc = "spawned", !.class = "Actionable"]]
    /\ UNCHANGED <<processed_events, custom_metrics, otelVars>>

\* a faulty variant: the handler joins the thread before it returns
EventsReturnAfterJoin(r) ==
    /\ req[r].pc = "spawned" /\ req[r].route = "events"
    /\ bg[r].pc \in {"done", "raised"}
    /\ req' = [req EXCEPT ![r] = [@ EXCEPT !.pc = "done", !.resp = Ack]]
    /\ UNCHANGED <<processed_events, bg, custom_metrics, otelVars>>

\* line 132: return resp
EventsReturn(r) ==
    /\ req[r].pc = "spawned" /\ req[r].route = "events"
    /\ req' = [req EXCEPT ![r] = [@ EXCEPT !.pc = "done", !.resp = Ack]]
    /\ UNCHANGED <<processed_events, bg, custom_metrics, otelVars>>

----------------------------------------------------------------------------
(* slash_aisdr, aisdr.py:134-157 *)

\* line 148 (the grave accents of the literal are written as apostrophes)
InitialResponse(text) ==
    [response_type |-> "in_channel",
     text |-> <<"Received: '/aisdr ">> \o text
                \o <<"'\n\nProcessing your request, please wait...">>]

\* a faulty variant: a command whose response_url was seen before is suppressed
\* through the registry
SlashReceiveDedup(r, form) ==
    /\ NextThread(r)
    /\ req' = [req EXCEPT ![r] = [@ EXCEPT !.pc = "spawned", !.route = "slash", !.data = form,
                                          !.class = "Slash"]]
    /\ custom_metrics' = Add(custom_metrics, "slack_slash_commands_counter", NoAttr)
    /\ processed_events' = processed_events \cup {form.response_url}
    /\ bg' = IF form.response_url \in processed_events THEN bg
             ELSE [bg EXCEPT ![r] = [NoUnit EXCEPT !.pc = "started", !.type = "slash",
                                                  !.text = form.text, !.dest = form.response_url]]
    /\ UNCHANGED otelVars

\* lines 136-152
SlashReceive(r, form) ==
    /\ NextThread(r)
    /\ req' = [req EXCEPT ![r] = [@ EXCEPT !.pc = "spawned", !.route = "slash", !.data = form,
                                          !.class = "Slash"]]
    /\ custom_metrics' = Add(custom_metrics, "slack_slash_commands_counter", NoAttr)
    /\ bg' = [bg EXCEPT ![r] = [NoUnit EXCEPT !.pc = "started", !.type = "slash",
                                              !.text = form.text, !.dest = form.response_url]]
    /\ UNCHANGED <<processed_events, otelVars>>

\* line 157
SlashReturn(r) ==
    /\ req[r].pc = "spawned" /\ req[r].route = "slash"
    /\ req' = [req EXCEPT ![r] = [@ EXCEPT !.pc = "done", !.resp = InitialResponse(req[r].data.text)]]
    /\ UNCHANGED <<processed_events, bg, custom_metrics, otelVars>>


----------------------------------------------------------------------------
(* process_user_input, aisdr.py:159-256 *)

\* what response.json() can hold when requests.post returns
FailureKinds == {"error", "missing", "empty"}

\* a faulty variant: one apology for every failure
ReplyForOneApology(kind, content) ==
    IF kind \in {"error", "missing", "empty"} THEN ApologyError ELSE Strip(content)

\* lines 233-250: the text returned for a response
ReplyFor(kind, content) ==
    IF kind = "error" THEN ApologyError
    ELSE IF kind \in {"missing", "empty"} THEN ApologyNoChoices
    ELSE Strip(content)

\* lines 235, 241: the processing_errors_counter label of a failure
ErrorLabelFor(kind) == IF kind = "error" THEN "openai_error" ELSE "no_choices"

\* what the unit's spans keep of the outcome: lines 234, 240, 246
OutcomeSeen(kind) == IF kind = "text" THEN "text" ELSE ErrorLabelFor(kind)

\* a faulty variant: the no-choices branch forgets its processing_errors_counter.add
CompletionMetricsUncounted(kind, competitor) ==
    IF kind = "text"
    THEN << <<"openai_request_duration", competitor>>, <<"emails_generated_counter", competitor>> >>
    ELSE IF kind = "error"
    THEN << <<"openai_request_duration", competitor>>,
            <<"processing_errors_counter", "openai_error">> >>
    ELSE << <<"openai_request_duration", competitor>> >>

\* lines 224-247: the instruments touched once requests.post has returned
CompletionMetrics(kind, competitor) ==
    IF kind = "text"
    THEN << <<"openai_request_duration", competitor>>, <<"emails_generated_counter", competitor>> >>
    ELSE << <<"openai_request_duration", competitor>>,
            <<"processing_errors_counter", ErrorLabelFor(kind)>> >>

----------------------------------------------------------------------------
(* background_process and background_slash_processing, aisdr.py:26-76 *)

Blocked(u, where) == bg[u].pc = where /\ ~bg[u].hung

\* a faulty variant: both units count their errors under the event unit's label
UnitErrorLabelShared(type) == "background_process"

\* lines 43, 71
UnitErrorLabel(type) == IF type = "event" THEN "background_process" ELSE "background_slash"

\* lines 27-36 / 51-60 and process_user_input up to the completion call of line 222;
\* the span keeps the extracted fields (lines 178-180)
BackgroundStart(u) ==
    /\ bg[u].pc = "started"
    /\ custom_metrics' = AddAll(custom_metrics,
            << <<"background_tasks_counter", bg[u].type>>,
               <<"openai_requests_counter", FieldsOf[bg[u].text].competitor_tool>> >>)
    /\ bg' = [bg EXCEPT ![u] = [@ EXCEPT !.pc = "openai", !.calls = @ + 1,
                                         !.fields = FieldsOf[bg[u].text]]]
    /\ UNCHANGED <<processed_events, req, otelVars>>

\* a faulty variant: the slash unit's payload is sent to the event's notifier and the reverse
NotifierCallSwapped(unit, text) ==
    IF unit.type = "slash"
    THEN [unit EXCEPT !.pc = "slack", !.response_text = text,
                      !.sent = Append(@, [api |-> "chat.postMessage", dest |-> Absent,
                                          response_type |-> Absent, text |-> text])]
    ELSE [unit EXCEPT !.pc = "post", !.response_text = text,
                      !.sent = Append(@, [api |-> "response_url", dest |-> Absent,
                                          response_type |-> "in_channel", text |-> text])]

\* lines 37 / 61-65: the notifier call made with the text process_user_input returned;
\* send_message_to_slack counts the message (line 260) before it posts (line 269)
NotifierCall(unit, text) ==
    IF unit.type = "event"
    THEN [unit EXCEPT !.pc = "slack", !.response_text = text,
                      !.sent = Append(@, [api |-> "chat.postMessage", dest |-> unit.dest,
                                          response_type |-> Absent, text |-> text])]
    ELSE [unit EXCEPT !.pc = "post", !.response_text = text,
                      !.sent = Append(@, [api |-> "response_url", dest |-> unit.dest,
                                          response_type |-> "in_channel", text |-> text])]

NotifierMetrics(type) ==
    IF type = "event" THEN << <<"slack_messages_counter", NoAttr>> >> ELSE <<>>

\* the completion call returns a response of the given kind: lines 222-250, then 37 / 61-65
CompletionReturns(u, kind, content) ==
    /\ Blocked(u, "openai")
    /\ custom_metrics' = AddAll(custom_metrics,
            CompletionMetrics(kind, FieldsOf[bg[u].text].competitor_tool)
            \o NotifierMetrics(bg[u].type))
    /\ bg' = [bg EXCEPT ![u] = NotifierCall([@ EXCEPT !.completion = OutcomeSeen(kind)],
                                            ReplyFor(kind, content))]
    /\ UNCHANGED <<processed_events, req, otelVars>>

CompletionText(u, content) == CompletionReturns(u, "text", content)

CompletionFailure(u, kind) == CompletionReturns(u, kind, <<>>)

\* lines 40-48 / 68-76: except, raise, finally of the unit; the span gets success
\* False and the error text, the exception leaves the thread
UnitRaises(unit) == [unit EXCEPT !.pc = "raised", !.success = "false", !.error = "str(e)"]

UnitRaisesMetrics(type) ==
    << <<"processing_errors_counter", UnitErrorLabel(type)>>,
       <<"background_task_duration", type>> >>

\* lines 252-256: requests.post raises (no latency sample) or response.json() / the
\* indexing of line 245 raises (latency sample taken); the unit's except clause follows
CompletionRaises(u, sampled) ==
    /\ Blocked(u, "openai")
    /\ custom_metrics' = AddAll(custom_metrics,
            (IF sampled
             THEN << <<"openai_request_duration", FieldsOf[bg[u].text].competitor_tool>> >>
             ELSE <<>>)
            \o << <<"processing_errors_counter", "openai_exception">> >>
            \o UnitRaisesMetrics(bg[u].type))
    /\ bg' = [bg EXCEPT ![u] = UnitRaises([@ EXCEPT !.completion = "openai_exception"])]
    /\ UNCHANGED <<processed_events, req, otelVars>>

\* lines 245-256: the provider's content has a length but no strip method (a JSON
\* list or object): the latency sample is taken, emails_generated_counter is
\* incremented at line 247, completion.strip() raises at line 250 and the except
\* clause of line 252 counts the exception; the unit's except clause follows
StripRaises(u) ==
    /\ Blocked(u, "openai")
    /\ custom_metrics' = AddAll(custom_metrics,
            CompletionMetrics("text", FieldsOf[bg[u].text].competitor_tool)
            \o << <<"processing_errors_counter", "openai_exception">> >>
            \o UnitRaisesMetrics(bg[u].type))
    /\ bg' = [bg EXCEPT ![u] = UnitRaises([@ EXCEPT !.completion = "openai_exception"])]
    /\ UNCHANGED <<processed_events, req, otelVars>>

\* lines 270-277, 38-39, 46-48: chat.postMessage answers ok
SlackOk(u) ==
    /\ Blocked(u, "slack")
    /\ custom_metrics' = Add(custom_metrics, "background_task_duration", bg[u].type)
    /\ bg' = [bg EXCEPT ![u] = [@ EXCEPT !.pc = "done", !.success = "true"]]
    /\ UNCHANGED <<processed_events, req, otelVars>>

\* lines 278-281: chat.postMessage answers with ok false; nothing is raised
SlackApiError(u) ==
    /\ Blocked(u, "slack")
    /\ custom_metrics' = AddAll(custom_metrics,
            << <<"processing_errors_counter", "slack_api_error">>,
               <<"background_task_duration", bg[u].type>> >>)
    /\ bg' = [bg EXCEPT ![u] = [@ EXCEPT !.pc = "done", !.success = "true"]]
    /\ UNCHANGED <<processed_events, req, otelVars>>

\* lines 285-289, then 40-48
SlackRaises(u) ==
    /\ Blocked(u, "slack")
    /\ custom_metrics' = AddAll(custom_metrics,
            << <<"processing_errors_counter", "slack_exception">> >>
            \o UnitRaisesMetrics(bg[u].type))
    /\ bg' = [bg EXCEPT ![u] = UnitRaises(@)]
    /\ UNCHANGED <<processed_events, req, otelVars>>

\* lines 65-67, 74-76: the post to response_url returns (its status is not looked at)
PostReturns(u) ==
    /\ Blocked(u, "post")
    /\ custom_metrics' = Add(custom_metrics, "background_task_duration", bg[u].type)
    /\ bg' = [bg EXCEPT ![u] = [@ EXCEPT !.pc = "done", !.success = "true"]]
    /\ UNCHANGED <<processed_events, req, otelVars>>

\* lines 65, 68-76
PostRaises(u) ==
    /\ Blocked(u, "post")
    /\ custom_metrics' = AddAll(custom_metrics, UnitRaisesMetrics(bg[u].type))
    /\ bg' = [bg EXCEPT ![u] = UnitRaises(@)]
    /\ UNCHANGED <<processed_events, req, otelVars>>

\* no timeout is set on any outbound call (lines 65, 222, 269): a call may never return
CallHangs(u) ==
    /\ bg[u].pc \in {"openai", "slack", "post"}
    /\ ~bg[u].hung
    /\ bg' = [bg EXCEPT ![u] = [@ EXCEPT !.hung = TRUE]]
    /\ UNCHANGED <<processed_events, req, custom_metrics, otelVars>>

----------------------------------------------------------------------------
(* Characters: str.title, str.lower, urllib.parse.quote and unquote *)

LowerLetters ==
    <<"a", "b", "c", "d", "e", "f", "g", "h", "i", "j", "k", "l", "m", "n", "o", "p", "q", "r", "s", "t", "u", "v", "w", "x", "y", "z">>
UpperLetters ==
    <<"A", "B", "C", "D", "E", "F", "G", "H", "I", "J", "K", "L", "M", "N", "O", "P", "Q", "R", "S", "T", "U", "V", "W", "X", "Y", "Z">>

IndexIn(c, letters) == CHOOSE i \in 1..Len(letters) : letters[i] = c

IsLower(c) == \E i \in 1..Len(LowerLetters) : LowerLetters[i] = c
IsUpper(c) == \E i \in 1..Len(UpperLetters) : UpperLetters[i] = c
IsCased(c) == IsLower(c) \/ IsUpper(c)

CharUpper(c) == IF IsLower(c) THEN UpperLetters[IndexIn(c, LowerLetters)] ELSE c
CharLower(c) == IF IsUpper(c) THEN LowerLetters[IndexIn(c, UpperLetters)] ELSE c

\* str.lower()
Lower(s) == [i \in 1..Len(s) |-> CharLower(s[i])]

\* str.title(): a cased character is upper-cased when it follows an uncased one (or
\* nothing) and lower-cased when it follows a cased one
Title(s) ==
    [i \in 1..Len(s) |->
        IF i > 1 /\ IsCased(s[i - 1]) THEN CharLower(s[i]) ELSE CharUpper(s[i])]

\* the characters quote(value, safe='') leaves alone
Unreserved ==
    { "a", "b", "c", "d", "e", "f", "g", "h", "i", "j", "k", "l", "m", "n", "o", "p", "q",
      "r", "s", "t", "u", "v", "w", "x", "y", "z", "A", "B", "C", "D", "E", "F", "G", "H",
      "I", "J", "K", "L", "M", "N", "O", "P", "Q", "R", "S", "T", "U", "V", "W", "X", "Y",
      "Z", "0", "1", "2", "3", "4", "5", "6", "7", "8", "9", "_", ".", "-", "~" }

\* <<character, its two hexadecimal digits>> for printable ASCII (the grave accent left out)
AsciiTable ==
    << <<" ", <<"2", "0">>>>, <<"!", <<"2", "1">>>>, <<"\"", <<"2", "2">>>>,
       <<"#", <<"2", "3">>>>, <<"$", <<"2", "4">>>>, <<"%", <<"2", "5">>>>,
       <<"&", <<"2", "6">>>>, <<"'", <<"2", "7">>>>, <<"(", <<"2", "8">>>>,
       <<")", <<"2", "9">>>>, <<"*", <<"2", "A">>>>, <<"+", <<"2", "B">>>>,
       <<",", <<"2", "C">>>>, <<"-", <<"2", "D">>>>, <<".", <<"2", "E">>>>,
       <<"/", <<"2", "F">>>>, <<"0", <<"3", "0">>>>, <<"1", <<"3", "1">>>>,
       <<"2", <<"3", "2">>>>, <<"3", <<"3", "3">>>>, <<"4", <<"3", "4">>>>,
       <<"5", <<"3", "5">>>>, <<"6", <<"3", "6">>>>, <<"7", <<"3", "7">>>>,
       <<"8", <<"3", "8">>>>, <<"9", <<"3", "9">>>>, <<":", <<"3", "A">>>>,
       <<";", <<"3", "B">>>>, <<"<", <<"3", "C">>>>, <<"=", <<"3", "D">>>>,
       <<">", <<"3", "E">>>>, <<"?", <<"3", "F">>>>, <<"@", <<"4", "0">>>>,
       <<"A", <<"4", "1">>>>, <<"B", <<"4", "2">>>>, <<"C", <<"4", "3">>>>,
       <<"D", <<"4", "4">>>>, <<"E", <<"4", "5">>>>, <<"F", <<"4", "6">>>>,
       <<"G", <<"4", "7">>>>, <<"H", <<"4", "8">>>>, <<"I", <<"4", "9">>>>,
       <<"J", <<"4", "A">>>>, <<"K", <<"4", "B">>>>, <<"L", <<"4", "C">>>>,
       <<"M", <<"4", "D">>>>, <<"N", <<"4", "E">>>>, <<"O", <<"4", "F">>>>,
       <<"P", <<"5", "0">>>>, <<"Q", <<"5", "1">>>>, <<"R", <<"5", "2">>>>,
       <<"S", <<"5", "3">>>>, <<"T", <<"5", "4">>>>, <<"U", <<"5", "5">>>>,
       <<"V", <<"5", "6">>>>, <<"W", <<"5", "7">>>>, <<"X", <<"5", "8">>>>,
       <<"Y", <<"5", "9">>>>, <<"Z", <<"5", "A">>>>, <<"[", <<"5", "B">>>>,
       <<"\\", <<"5", "C">>>>, <<"]", <<"5", "D">>>>, <<"^", <<"5", "E">>>>,
       <<"_", <<"5", "F">>>>, <<"a", <<"6", "1">>>>, <<"b", <<"6", "2">>>>,
       <<"c", <<"6", "3">>>>, <<"d", <<"6", "4">>>>, <<"e", <<"6", "5">>>>,
       <<"f", <<"6", "6">>>>, <<"g", <<"6", "7">>>>, <<"h", <<"6", "8">>>>,
       <<"i", <<"6", "9">>>>, <<"j", <<"6", "A">>>>, <<"k", <<"6", "B">>>>,
       <<"l", <<"6", "C">>>>, <<"m", <<"6", "D">>>>, <<"n", <<"6", "E">>>>,
       <<"o", <<"6", "F">>>>, <<"p", <<"7", "0">>>>, <<"q", <<"7", "1">>>>,
       <<"r", <<"7", "2">>>>, <<"s", <<"7", "3">>>>, <<"t", <<"7", "4">>>>,
       <<"u", <<"7", "5">>>>, <<"v", <<"7", "6">>>>, <<"w", <<"7", "7">>>>,
       <<"x", <<"7", "8">>>>, <<"y", <<"7", "9">>>>, <<"z", <<"7", "A">>>>,
       <<"{", <<"7", "B">>>>, <<"|", <<"7", "C">>>>, <<"}", <<"7", "D">>>>,
       <<"~", <<"7", "E">>>> >>

HexDigits == {"0", "1", "2", "3", "4", "5", "6", "7", "8", "9", "A", "B", "C", "D", "E", "F"}

HexOf(c) ==
    LET i == CHOOSE j \in 1..Len(AsciiTable) : AsciiTable[j][1] = c IN AsciiTable[i][2]

Decodable(h) == \E j \in 1..Len(AsciiTable) : AsciiTable[j][2] = h

CharOf(h) ==
    LET i == CHOOSE j \in 1..Len(AsciiTable) : AsciiTable[j][2] = h IN AsciiTable[i][1]

\* urllib.parse.quote(s, safe='')
RECURSIVE Quote(_)
Quote(s) ==
    IF s = <<>> THEN <<>>
    ELSE (IF Head(s) \in Unreserved THEN <<Head(s)>> ELSE <<"%">> \o HexOf(Head(s)))
         \o Quote(Tail(s))

\* urllib.parse.unquote(s): %XY with two hexadecimal digits becomes the character;
\* any other % is kept. Bytes outside printable ASCII are kept as one opaque item.
RECURSIVE Unquote(_)
Unquote(s) ==
    IF s = <<>> THEN <<>>
    ELSE IF /\ Head(s) = "%" /\ Len(s) >= 3
            /\ CharUpper(s[2]) \in HexDigits /\ CharUpper(s[3]) \in HexDigits
    THEN LET h == <<CharUpper(s[2]), CharUpper(s[3])>> IN
         (IF Decodable(h) THEN <<CharOf(h)>> ELSE <<"%" \o h[1] \o h[2]>>)
         \o Unquote(SubSeq(s, 4, Len(s)))
    ELSE <<Head(s)>> \o Unquote(Tail(s))

----------------------------------------------------------------------------
(* get_otlp_headers, otel_setup.py:52-105 *)

Authorization == <<"A", "u", "t", "h", "o", "r", "i", "z", "a", "t", "i", "o", "n">>
TargetPackage == <<"x", "-", "o", "b", "s", "e", "r", "v", "e", "-", "t", "a", "r", "g", "e", "t", "-", "p", "a", "c", "k", "a", "g", "e">>
BearerPrefix == <<"B", "e", "a", "r", "e", "r", " ">>
Placeholder == <<"B", "e", "a", "r", "e", "r", " ", "<", "Y", "O", "U", "R", "_", "I", "N", "G", "E", "S", "T", "_", "T", "O", "K", "E", "N", ">">>
Equals == <<"=">>

\* a dict: a function from header name to value
EmptyDict == <<>>
Put(d, k, v) == [x \in DOMAIN d \cup {k} |-> IF x = k THEN v ELSE d[x]]
Update(d, e) == [x \in DOMAIN d \cup DOMAIN e |-> IF x \in DOMAIN e THEN e[x] ELSE d[x]]

\* an environment variable: unset, or set to a text
Unset == [set |-> FALSE, v |-> <<>>]
SetTo(text) == [set |-> TRUE, v |-> text]

\* os.getenv(name) is truthy: set, and not the empty string
Given(var) == var.set /\ var.v # <<>>

\* the value of OTEL_EXPORTER_OTLP_HEADERS: unset, a JSON object, another JSON value,
\* or a text that is not JSON (the empty string included)
NoDoc == [kind |-> "unset", obj |-> EmptyDict, text |-> <<>>]
JsonObject(obj) == [kind |-> "object", obj |-> obj, text |-> <<>>]
JsonNumber == [kind |-> "number", obj |-> EmptyDict, text |-> <<>>]
PlainText(text) == [kind |-> "text", obj |-> EmptyDict, text |-> text]

\* other JSON values json.loads accepts: null, a string with its content, and a list,
\* given by the entries its two-item elements make and by the text of its first
\* element that is no two-item sequence (empty when every element is one)
JsonNull == [kind |-> "null", obj |-> EmptyDict, text |-> <<>>]
JsonString(content) == [kind |-> "string", obj |-> EmptyDict, text |-> content]
JsonList(pairs, other) == [kind |-> "list", obj |-> pairs, text |-> other]

\* lines 63-64: headers_json is truthy
GivenDoc(doc) == doc.kind # "unset" /\ ~(doc.kind = "text" /\ doc.text = <<>>)

\* dict.update(value) accepts a mapping and an iterable of two-item sequences: an
\* empty string and an empty list add nothing, a list of pairs adds them; a number
\* or null (TypeError), a non-empty string (its items are single characters,
\* ValueError) and a list with an element that is no pair make it raise
Updatable(doc) ==
    \/ doc.kind = "object"
    \/ doc.kind \in {"string", "list"} /\ doc.text = <<>>

\* lines 64-68: json.loads and dict.update. A text that is not JSON is a
\* JSONDecodeError, caught and logged; a JSON value dict.update cannot take makes
\* it raise TypeError or ValueError, which nothing catches
WithBulk(doc) ==
    IF ~GivenDoc(doc) THEN [raised |-> FALSE, warned |-> FALSE, headers |-> EmptyDict]
    ELSE IF Updatable(doc)
    THEN [raised |-> FALSE, warned |-> FALSE, headers |-> Update(EmptyDict, doc.obj)]
    ELSE IF doc.kind = "text" THEN [raised |-> FALSE, warned |-> TRUE, headers |-> EmptyDict]
    ELSE [raised |-> TRUE, warned |-> FALSE, headers |-> EmptyDict]

\* line 72
WellFormed(auth) == Given(auth) /\ Contains(auth.v, Equals)

\* lines 73-74
AuthKey(auth) == Title(Strip(Split1(auth.v, Equals)[1]))

\* a faulty variant: the value is stored as configured, without unquote
AuthValueRaw(auth) == Strip(Split1(auth.v, Equals)[2])

\* lines 73, 75-77
AuthValue(auth) ==
    LET value == Strip(Split1(auth.v, Equals)[2]) IN
    IF Contains(value, <<"%">>) THEN Unquote(value) ELSE value

\* lines 70-78
WithAuthHeader(headers, auth) ==
    IF WellFormed(auth) THEN Put(headers, AuthKey(auth), AuthValue(auth)) ELSE headers

\* line 81: os.environ["OTEL_EXPORTER_OTLP_HEADERS"] = f"{key}={quote(value, safe='')}"
Exposed(env) ==
    IF WellFormed(env.auth_header)
    THEN [env EXCEPT !.headers =
            PlainText(AuthKey(env.auth_header) \o Equals \o Quote(AuthValue(env.auth_header)))]
    ELSE env

\* lines 87-88
OrPlaceholder(headers) ==
    IF DOMAIN headers = {} THEN Put(EmptyDict, Authorization, Placeholder) ELSE headers

\* a faulty variant: the token fills Authorization only where no lower layer set it
WithIngestTokenIfAbsent(headers, token) ==
    IF Given(token) /\ Authorization \notin DOMAIN headers
    THEN Put(headers, Authorization, BearerPrefix \o token.v) ELSE headers

\* a faulty variant: the token is stored without the Bearer scheme
WithIngestTokenBare(headers, token) ==
    IF Given(token) THEN Put(headers, Authorization, token.v) ELSE headers

\* lines 90-91, 96
WithIngestToken(headers, token) ==
    IF Given(token) THEN Put(headers, Authorization, BearerPrefix \o token.v) ELSE headers

\* lines 91-95: the override diagnostic is logged
OverrideNoted(headers, token) ==
    /\ Given(token)
    /\ Authorization \in DOMAIN headers
    /\ headers[Authorization] # BearerPrefix \o token.v

\* line 98
WithTargetPackage(headers, package) == Put(headers, TargetPackage, package)

\* lines 100-103
Masked(headers) ==
    [k \in DOMAIN headers |->
        IF Lower(k) = Lower(Authorization) THEN <<"<masked>">> ELSE headers[k]]

\* get_otlp_headers(package) run on the environment env: whether it raised, the dict
\* it returned, the environment it left and the records it logged
GetOtlpHeaders(env, package) ==
    LET bulk == WithBulk(env.headers)
        layered == OrPlaceholder(WithAuthHeader(bulk.headers, env.auth_header))
        resolved == WithTargetPackage(WithIngestToken(layered, env.token), package)
    IN  IF bulk.raised
        THEN [raised |-> TRUE, headers |-> EmptyDict, environ |-> env, logs |-> {}]
        ELSE [raised |-> FALSE,
              headers |-> resolved,
              environ |-> Exposed(env),
              logs |->
                {[level |-> "warning", message |-> "Invalid OTEL_EXPORTER_OTLP_HEADERS",
                  package |-> package, headers |-> EmptyDict] : x \in {1} \cap
                        (IF bulk.warned THEN {1} ELSE {})}
                \cup
                {[level |-> "warning", message |-> "Invalid OTEL_EXPORTER_OTLP_AUTH_HEADER format",
                  package |-> package, headers |-> EmptyDict] : x \in {1} \cap
                        (IF Given(env.auth_header) /\ ~WellFormed(env.auth_header)
                         THEN {1} ELSE {})}
                \cup
                {[level |-> "info", message |-> "OBSERVE_INGEST_TOKEN overrides Authorization",
                  package |-> package, headers |-> EmptyDict] : x \in {1} \cap
                        (IF OverrideNoted(layered, env.token) THEN {1} ELSE {})}
                \cup
                {[level |-> "info", message |-> "OTLP headers", package |-> package,
                  headers |-> Masked(resolved)]}]

----------------------------------------------------------------------------
(* setup_observability, otel_setup.py:320-344 *)

HostExplorer == <<"H", "o", "s", "t", " ", "E", "x", "p", "l", "o", "r", "e", "r">>
Tracing == <<"T", "r", "a", "c", "i", "n", "g">>
Metrics == <<"M", "e", "t", "r", "i", "c", "s">>

\* the package each exporter is resolved for: lines 200, 116, 156
PackageOf == [logs |-> HostExplorer, traces |-> Tracing, metrics |-> Metrics]

\* Python objects: None, or an object with an identity; a dict has keys
None == [kind |-> "None", id |-> 0, keys |-> {}]
NewObject(kind, keys) == [kind |-> kind, id |-> heap + 1, keys |-> keys]

Unassigned == [tracer |-> None, meter |-> None, custom_metrics |-> None]

\* what each setup function returns to setup_observability: lines 141, 189 (setup_logging
\* returns nothing)
HandleOf == [logs |-> "none", traces |-> "tracer", metrics |-> "meter"]

\* what a setup function does before it resolves its headers: setup_logging installs
\* the log correlation fields and format (line 193, LoggingInstrumentor)
StagesBefore == [logs |-> <<"LoggingInstrumentor">>, traces |-> <<>>, metrics |-> <<>>]

\* what it builds with the resolved headers: lines 212-231 (log exporter, batch log
\* processor, then the formatter of the root handlers), 130-136 (span exporter and
\* batch span processor), 169-186 (metric exporter, periodic reader, meter provider)
StagesAfter ==
    [logs |-> <<"log_pipeline", "Formatter">>,
     traces |-> <<"trace_pipeline">>,
     metrics |-> <<"metric_pipeline">>]

\* one of setup_logging, setup_tracing, setup_metrics: resolve the headers and hand
\* them to the exporter; an exception ends the import of the application
SetupExporter(exporter, from, to) ==
    /\ boot = from
    /\ LET got == GetOtlpHeaders(environ, PackageOf[exporter])
           made == ~got.raised /\ HandleOf[exporter] # "none"
       IN
        /\ environ' = got.environ
        /\ log_records' = log_records \cup got.logs
        /\ exporters' = IF got.raised THEN exporters ELSE exporters @@ (exporter :> got.headers)
        /\ boot' = IF got.raised THEN "crashed" ELSE to
        /\ handles' = IF made
                      THEN [handles EXCEPT ![HandleOf[exporter]] =
                                NewObject(HandleOf[exporter], {})]
                      ELSE handles
        /\ heap' = IF made THEN heap + 1 ELSE heap
        /\ stages' = stages \o StagesBefore[exporter]
                        \o (IF got.raised THEN <<>> ELSE StagesAfter[exporter])
    /\ UNCHANGED <<webVars, globals, accessed>>

\* lines 191-231
SetupLogging == SetupExporter("logs", "start", "logging")

\* lines 107-141
SetupTracing == SetupExporter("traces", "logging", "tracing")

\* lines 143-189
SetupMetrics == SetupExporter("metrics", "tracing", "metered")

\* a faulty variant: one instrument is left out of the returned dict
CreateCustomMetricsNoDuration(meter) == InstrumentNames \ {"background_task_duration"}

\* lines 246-318: the keys of the dict create_custom_metrics returns
CreateCustomMetrics(meter) == InstrumentNames

\* a faulty variant: the business metrics are registered before the application is
\* instrumented
FinishSetupMetricsFirst ==
    /\ boot = "metered"
    /\ boot' = "serving"
    /\ custom_metrics' = [n \in CreateCustomMetrics(handles.meter) |-> <<>>]
    /\ handles' = [handles EXCEPT !.custom_metrics =
                        NewObject("dict", CreateCustomMetrics(handles.meter))]
    /\ heap' = heap + 1
    /\ stages' = stages \o <<"create_custom_metrics", "instrument_application">>
    /\ UNCHANGED <<processed_events, req, bg, environ, exporters, log_records, globals,
                   accessed>>

\* lines 336-344: instrument_application, create_custom_metrics, return. The three
\* names assigned in setup_observability are its locals: the module globals of lines
\* 347-349 are left as they are
FinishSetup ==
    /\ boot = "metered"
    /\ boot' = "serving"
    /\ custom_metrics' = [n \in CreateCustomMetrics(handles.meter) |-> <<>>]
    /\ handles' = [handles EXCEPT !.custom_metrics =
                        NewObject("dict", CreateCustomMetrics(handles.meter))]
    /\ heap' = heap + 1
    /\ stages' = stages \o <<"instrument_application", "create_custom_metrics">>
    /\ UNCHANGED <<processed_events, req, bg, environ, exporters, log_records, globals,
                   accessed>>

NotAccessed == [tracer |-> <<>>, meter |-> <<>>, custom_metrics |-> <<>>]

\* get_tracer, get_meter, get_custom_metrics: the global is filled on the first call
\* (lines 354-355, 361-362, 368-369) and returned (lines 356, 363, 370)
Accessor(name, kind) ==
    /\ boot \in {"start", "serving", "crashed"}
    /\ Len(accessed[name]) < MaxCalls
    /\ LET value == IF globals[name] = None THEN NewObject(kind, {}) ELSE globals[name] IN
        /\ globals' = [globals EXCEPT ![name] = value]
        /\ accessed' = [accessed EXCEPT ![name] = Append(@, [value |-> value, at |-> boot])]
        /\ heap' = IF globals[name] = None THEN heap + 1 ELSE heap
    /\ UNCHANGED <<webVars, environ, exporters, log_records, boot, handles, stages>>

\* lines 351-356
GetTracer == Accessor("tracer", "tracer")

\* lines 358-363
GetMeter == Accessor("meter", "meter")

\* a faulty variant: the dict is created on every call and never kept
GetCustomMetricsUncached ==
    /\ boot \in {"start", "serving", "crashed"}
    /\ Len(accessed.custom_metrics) < MaxCalls
    /\ accessed' = [accessed EXCEPT !.custom_metrics =
                        Append(@, [value |-> NewObject("dict", {}), at |-> boot])]
    /\ heap' = heap + 1
    /\ UNCHANGED <<webVars, environ, exporters, log_records, boot, handles, globals, stages>>

\* lines 365-370
GetCustomMetrics == Accessor("custom_metrics", "dict")

TokenText == <<"t", "o", "k">>

\* configurations of the three header variables
BulkDocs ==
    { NoDoc,
      PlainText(<<>>),
      PlainText(<<"{", "o", "o", "p", "s">>),
      JsonNumber,
      JsonNull,
      JsonString(<<>>),
      JsonString(<<"h", "i">>),
      JsonList(EmptyDict, <<>>),
      JsonList(Put(EmptyDict, <<"X", "-", "E", "x", "t", "r", "a">>, <<"a", " ", "b">>), <<>>),
      JsonList(EmptyDict, <<"1">>),
      JsonObject(Put(EmptyDict, Authorization, <<"B", "e", "a", "r", "e", "r", " ", "o", "l", "d">>)),
      JsonObject(Put(EmptyDict, Authorization, BearerPrefix \o TokenText)),
      JsonObject(Put(Put(EmptyDict, <<"X", "-", "E", "x", "t", "r", "a">>, <<"a", " ", "b">>), <<"a", "u", "t", "h", "o", "r", "i", "z", "a", "t", "i", "o", "n">>, <<"B", "a", "s", "i", "c", " ", "x">>)) }

AuthHeaders ==
    { Unset,
      SetTo(<<>>),
      SetTo(<<"n", "o", "v", "a", "l", "u", "e">>),
      SetTo(<<"a", "u", "t", "h", "o", "r", "i", "z", "a", "t", "i", "o", "n", "=", "B", "a", "s", "i", "c", "%", "2", "0", "a", ":", "b">>),
      SetTo(<<" ", "x", "-", "a", "p", "i", "-", "k", "e", "y", " ", "=", " ", "k", " ", "1", " ">>),
      SetTo(<<"a", "u", "t", "h", "o", "r", "i", "z", "a", "t", "i", "o", "n", "=", "B", "e", "a", "r", "e", "r", "%", "2", "0", "t", "o", "k">>) }

Tokens == { Unset, SetTo(<<>>), SetTo(TokenText) }

Environs == [headers : BulkDocs, auth_header : AuthHeaders, token : Tokens]

NoEnviron == [headers |-> NoDoc, auth_header |-> Unset, token |-> Unset]

\* lines 328-340: the stages of a setup_observability that returns, in order
SetupStages ==
    StagesBefore.logs \o StagesAfter.logs \o StagesBefore.traces \o StagesAfter.traces
        \o StagesBefore.metrics \o StagesAfter.metrics
        \o <<"instrument_application", "create_custom_metrics">>

----------------------------------------------------------------------------

\* the application is serving: setup_observability has run with no header variable set
OtelIdle ==
    /\ environ = NoEnviron
    /\ exporters = [e \in DOMAIN PackageOf |-> GetOtlpHeaders(NoEnviron, PackageOf[e]).headers]
    /\ log_records = UNION {GetOtlpHeaders(NoEnviron, PackageOf[e]).logs : e \in DOMAIN PackageOf}
    /\ boot = "serving"
    /\ handles = [tracer |-> [kind |-> "tracer", id |-> 1, keys |-> {}],
                  meter |-> [kind |-> "meter", id |-> 2, keys |-> {}],
                  custom_metrics |-> [kind |-> "dict", id |-> 3, keys |-> InstrumentNames]]
    /\ globals = Unassigned
    /\ accessed = NotAccessed
    /\ heap = 3
    /\ stages = SetupStages

Init == WebInit /\ OtelIdle

RequestStep(r) ==
    \/ \E data \in EventPayloads : EventsReceive(r, data)
    \/ EventsChallenge(r)
    \/ EventsNoId(r)
    \/ EventsDuplicate(r)
    \/ EventsNotSeen(r)
    \/ EventsAdd(r)
    \/ EventsIgnored(r)
    \/ EventsDispatch(r)
    \/ EventsReturn(r)
    \/ \E form \in SlashForms : SlashReceive(r, form)
    \/ SlashReturn(r)

UnitProgress(u) ==
    \/ BackgroundStart(u)
    \/ \E content \in Completions : CompletionText(u, content)
    \/ \E kind \in FailureKinds : CompletionFailure(u, kind)
    \/ \E sampled \in BOOLEAN : CompletionRaises(u, sampled)
    \/ StripRaises(u)
    \/ SlackOk(u)
    \/ SlackApiError(u)
    \/ SlackRaises(u)
    \/ PostReturns(u)
    \/ PostRaises(u)

\* what a request thread does once Flask has handed it a delivery
HandlerStep(r) ==
    \/ EventsChallenge(r)
    \/ EventsNoId(r)
    \/ EventsDuplicate(r)
    \/ EventsNotSeen(r)
    \/ EventsAdd(r)
    \/ EventsIgnored(r)
    \/ EventsDispatch(r)
    \/ EventsReturn(r)
    \/ SlashReturn(r)

Next ==
    \/ \E r \in Requests : RequestStep(r)
    \/ \E u \in Requests : UnitProgress(u)
    \/ \E u \in Requests : CallHangs(u)

Spec == Init /\ [][Next]_vars

\* One actionable delivery whose collaborators succeed, and replays of it that arrive
\* once its identifier has been registered.
ReplayInit ==
    /\ processed_events = {}
    /\ req = [r \in ReplayRequests |-> IdleReq]
    /\ bg = [r \in ReplayRequests |-> NoUnit]
    /\ custom_metrics = [n \in InstrumentNames |-> <<>>]
    /\ OtelIdle

Replay(r) ==
    /\ r = 1 \/ BoDelivery.event_id \in processed_events
    /\ EventsReceive(r, BoDelivery)

NextReplay ==
    \/ \E r \in ReplayRequests : Replay(r)
    \/ \E r \in ReplayRequests : EventsDuplicate(r)
    \/ \E r \in ReplayRequests : EventsNotSeen(r)
    \/ \E r \in ReplayRequests : EventsAdd(r)
    \/ \E r \in ReplayRequests : EventsDispatch(r)
    \/ \E r \in ReplayRequests : EventsReturn(r)
    \/ \E u \in ReplayRequests : BackgroundStart(u)
    \/ \E u \in ReplayRequests, content \in Completions : CompletionText(u, content)
    \/ \E u \in ReplayRequests : SlackOk(u)

SpecReplay == ReplayInit /\ [][NextReplay]_vars

\* One slash command for every text of ExtractTexts, up to the completion call
ExtractInit ==
    /\ processed_events = {}
    /\ req = [r \in {1} |-> IdleReq]
    /\ bg = [r \in {1} |-> NoUnit]
    /\ custom_metrics = [n \in InstrumentNames |-> <<>>]
    /\ OtelIdle

NextExtract ==
    \/ \E form \in ExtractForms : SlashReceive(1, form)
    \/ BackgroundStart(1)

SpecExtract == ExtractInit /\ [][NextExtract]_vars

\* The slash endpoint alone: commands, their units and the calls the units make
NextSlash ==
    \/ \E r \in Requests, form \in SlashFormsTwo : SlashReceive(r, form)
    \/ \E r \in Requests : SlashReturn(r)
    \/ \E u \in Requests : BackgroundStart(u)
    \/ \E u \in Requests, content \in Completions : CompletionText(u, content)
    \/ \E u \in Requests, kind \in FailureKinds : CompletionFailure(u, kind)
    \/ \E u \in Requests, sampled \in BOOLEAN : CompletionRaises(u, sampled)
    \/ \E u \in Requests : StripRaises(u)
    \/ \E u \in Requests : PostReturns(u)
    \/ \E u \in Requests : PostRaises(u)
    \/ \E u \in Requests : CallHangs(u)

SpecSlash == Init /\ [][NextSlash]_vars

\* The import of the application under every configuration of the header variables
OtelInit ==
    /\ WebInit
    /\ environ \in Environs
    /\ exporters = <<>>
    /\ log_records = {}
    /\ boot = "start"
    /\ handles = Unassigned
    /\ globals = Unassigned
    /\ accessed = NotAccessed
    /\ heap = 0
    /\ stages = <<>>

NextOtel ==
    \/ SetupLogging
    \/ SetupTracing
    \/ SetupMetrics
    \/ FinishSetup

SpecOtel == OtelInit /\ [][NextOtel]_vars

\* configurations the accessors are exercised under: nothing set, the ingest token
\* only, and bulk headers that end the import
AccessEnvirons ==
    { NoEnviron,
      [NoEnviron EXCEPT !.token = SetTo(TokenText)],
      [NoEnviron EXCEPT !.headers = JsonNumber] }

\* The import of otel_setup, accessor calls before setup_observability runs and after
\* it has returned
AccessInit ==
    /\ OtelInit
    /\ environ \in AccessEnvirons

NextAccess ==
    \/ NextOtel
    \/ GetTracer
    \/ GetMeter
    \/ GetCustomMetrics

SpecAccess == AccessInit /\ [][NextAccess]_vars

\* The events endpoint under deliveries of one actionable event and its replays.
\* Threads are scheduled fairly: a handler that can take its next step takes it, and
\* an outbound call that has not hung returns or raises. Arrivals are not forced.
NextLive ==
    \/ \E r \in Requests : EventsReceive(r, BoDelivery)
    \/ \E r \in Requests : EventsDuplicate(r)
    \/ \E r \in Requests : EventsNotSeen(r)
    \/ \E r \in Requests : EventsAdd(r)
    \/ \E r \in Requests : EventsDispatch(r)
    \/ \E r \in Requests : EventsReturn(r)
    \/ \E u \in Requests : BackgroundStart(u)
    \/ \E u \in Requests, content \in Completions : CompletionText(u, content)
    \/ \E u \in Requests, kind \in FailureKinds : CompletionFailure(u, kind)
    \/ \E u \in Requests, sampled \in BOOLEAN : CompletionRaises(u, sampled)
    \/ \E u \in Requests : SlackOk(u)
    \/ \E u \in Requests : SlackApiError(u)
    \/ \E u \in Requests : SlackRaises(u)
    \/ \E u \in Requests : CallHangs(u)

SpecLive ==
    /\ Init /\ [][NextLive]_vars
    /\ \A r \in Requests : WF_vars(HandlerStep(r))
    /\ \A u \in Requests : WF_vars(UnitProgress(u))

----------------------------------------------------------------------------
(* Claims about the events endpoint *)

IsEvent(r) == req[r].route = "events"

\* the delivery got past the already-seen test of line 95
PassedSeenTest(r) ==
    /\ IsEvent(r)
    /\ \/ req[r].pc \in {"insert", "classify", "spawned"}
       \/ req[r].class \in {"Ignored", "Actionable"}

SameTruthyId(q, r) ==
    /\ IsEvent(q) /\ IsEvent(r)
    /\ req[q].data.event_id = req[r].data.event_id
    /\ req[q].data.event_id \notin {Absent, ""}

\* C1: of the deliveries that carry the same non-empty event identifier, no two pass
\* the already-seen check, under every interleaving of their request threads.
C1_NoTwoPassSeenTest ==
    \A q, r \in Requests :
        (q # r /\ SameTruthyId(q, r)) => ~(PassedSeenTest(q) /\ PassedSeenTest(r))

\* the step taken by request thread r
Steps(r) == req'[r] # req[r]

CarriesChallenge(r) == IsEvent(r) /\ req[r].data.challenge # Absent

\* C2: a delivery with a challenge field is answered with that value verbatim, starts
\* no background unit and leaves the registry unchanged, whatever else it carries.
C2_HandshakeEcho ==
    /\ [](\A r \in Requests : CarriesChallenge(r) =>
            /\ bg[r] = NoUnit
            /\ req[r].pc \in {"entered", "done"}
            /\ req[r].pc = "done" => req[r].resp = [challenge |-> req[r].data.challenge])
    /\ [][\A r \in Requests :
            (Steps(r) /\ req'[r].route = "events" /\ req'[r].data.challenge # Absent)
                => (processed_events' = processed_events /\ bg' = bg)]_vars

C2_Witness ==
    \E r \in Requests :
        /\ CarriesChallenge(r)
        /\ req[r].pc = "done"
        /\ req[r].data.event_id = "E1"
        /\ req[r].data.event.type = "app_mention"
        /\ req[r].resp = [challenge |-> ""]
        /\ "E1" \notin processed_events

RegisteredOnEntry(r) ==
    /\ IsEvent(r) /\ req[r].pc = "entered"
    /\ req[r].data.event_id \notin {Absent, ""}
    /\ req[r].data.event_id \in processed_events

DuplicateOutcome(r) ==
    /\ req'[r].pc = "done"
    /\ req'[r].resp = Ack
    /\ bg' = bg
    /\ processed_events' = processed_events

\* C4 as stated: every delivery whose event identifier is already in the registry is
\* answered {"status":"ok"}, starts no unit and leaves the registry as it was.
C4_Original ==
    [][\A r \in Requests : (RegisteredOnEntry(r) /\ Steps(r)) => DuplicateOutcome(r)]_vars

\* C4 (amended): a delivery without a challenge field whose event identifier is
\* already in the registry is answered {"status":"ok"}, starts no unit and leaves
\* the registry as it was.
C4_DuplicateAck ==
    [][\A r \in Requests :
        (RegisteredOnEntry(r) /\ req[r].data.challenge = Absent /\ Steps(r))
            => (DuplicateOutcome(r) /\ req'[r].class = "Duplicate")]_vars

C4_Witness ==
    \E r \in Requests :
        /\ IsEvent(r) /\ req[r].class = "Duplicate"
        /\ req[r].pc = "done" /\ req[r].resp = Ack
        /\ bg[r] = NoUnit
        /\ req[r].data.event_id \in processed_events


UnitOver(u) == bg[u].pc \in {"done", "raised"}

\* C5: an Actionable delivery is acknowledged without waiting for its unit: every
\* delivery in a handler is eventually answered with the acknowledgement, also when
\* a unit (its own included) has hung, and every unit that has not itself hung ends,
\* whatever the other units do.
C5_AckWithoutWaiting ==
    /\ \A r \in Requests :
         (req[r].pc \notin {"idle", "done"}) ~> (req[r].pc = "done" /\ req[r].resp = Ack)
    /\ \A u \in Requests :
         (bg[u].pc = "started") ~> (UnitOver(u) \/ bg[u].hung)

C5_Witness ==
    \E r, q \in Requests :
        /\ r < q
        /\ req[r].class = "Actionable" /\ req[r].pc = "done" /\ req[r].resp = Ack
        /\ bg[r].hung
        /\ req[q].pc = "done" /\ req[q].resp = Ack
        /\ bg[q].pc = "done"


----------------------------------------------------------------------------
(* Claims about the background units *)

Apologies == {ApologyError, ApologyNoChoices}

ErrorsCounted(m) == Total(m, "processing_errors_counter")

\* C6: on an error envelope or a missing or empty choice list process_user_input
\* returns an apology to its caller (the unit goes on to its notifier call, nothing is
\* raised) and processing_errors_counter is incremented exactly once.
C6_FailureReturnsApology ==
    [][\A u \in Requests, kind \in FailureKinds :
        CompletionFailure(u, kind) =>
            /\ bg'[u].pc \in {"slack", "post"}
            /\ bg'[u].response_text \in Apologies
            /\ bg'[u].success = "unset"
            /\ ErrorsCounted(custom_metrics') = ErrorsCounted(custom_metrics) + 1]_vars

C6_Witness ==
    \E u \in Requests :
        /\ bg[u].completion = "no_choices"
        /\ bg[u].pc \in {"slack", "post"}
        /\ bg[u].response_text = ApologyNoChoices
        /\ Count(custom_metrics, "processing_errors_counter", "no_choices") = 1

Notified(u) == bg[u].sent # <<>>

ReplyDestination(r) ==
    IF req[r].route = "events" THEN req[r].data.event.channel ELSE req[r].data.response_url

CompletionFailed(u) == bg[u].completion \in {"openai_error", "no_choices", "openai_exception"}

\* C8 as stated: a unit whose completion call failed in any of the three ways has
\* invoked the Notifier with a fallback message by the time it ends.
C8_Original ==
    \A u \in Requests :
        (UnitOver(u) /\ CompletionFailed(u))
            => (Notified(u) /\ bg[u].sent[1].text \in Apologies)

\* C8 (amended): a unit whose completion call returned a provider error or an empty
\* response invokes the Notifier once, with the fallback message and for its own
\* reply destination; a unit whose completion call raised ends without invoking it.
C8_FallbackUnlessRaised ==
    \A u \in Requests :
        /\ bg[u].completion \in {"openai_error", "no_choices"}
                => /\ Len(bg[u].sent) = 1
                   /\ bg[u].sent[1].text \in Apologies
                   /\ bg[u].sent[1].dest = ReplyDestination(u)
        /\ bg[u].completion = "openai_exception"
                => (bg[u].sent = <<>> /\ bg[u].pc = "raised")

C8_Witness ==
    \E u, v \in Requests :
        /\ bg[u].completion = "openai_error" /\ UnitOver(u)
        /\ bg[u].sent = <<[api |-> "chat.postMessage", dest |-> "C1",
                           response_type |-> Absent, text |-> ApologyError]>>
        /\ bg[v].completion = "openai_exception" /\ UnitOver(v) /\ ~Notified(v)


RECURSIVE SumCalls(_)
SumCalls(S) ==
    IF S = {} THEN 0
    ELSE LET u == CHOOSE x \in S : TRUE IN bg[u].calls + SumCalls(S \ {u})

\* every notifier invocation made so far, by any unit
AllSent == UNION { {<<u, i, bg[u].sent[i]>> : i \in 1..Len(bg[u].sent)} : u \in DOMAIN bg }

PushToC1 == { x \in AllSent : x[3].api = "chat.postMessage" /\ x[3].dest = "C1" }

\* C9: the delivery of the app_mention "Name: Bo, Competitor: Splunk" with a fresh
\* identifier and succeeding collaborators makes one completion call, one push
\* notification to the event's channel, one background-tasks-started increment and one
\* completion-requests increment, labeled Splunk; replays made afterwards add none.
C9_OneOfEach ==
    /\ SumCalls(DOMAIN bg) <= 1
    /\ Cardinality(AllSent) <= 1
    /\ Total(custom_metrics, "background_tasks_counter") <= 1
    /\ Total(custom_metrics, "openai_requests_counter") <= 1
    /\ \A r \in DOMAIN req : r # 1 => (bg[r] = NoUnit /\ req[r].class \in {"none", "Duplicate"})
    /\ bg[1].pc = "done" =>
        /\ SumCalls(DOMAIN bg) = 1
        /\ Cardinality(AllSent) = 1 /\ PushToC1 = AllSent
        /\ Count(custom_metrics, "background_tasks_counter", "event") = 1
        /\ Count(custom_metrics, "openai_requests_counter", Splunk) = 1

C9_Witness ==
    /\ bg[1].pc = "done"
    /\ req[1].data = BoDelivery
    /\ \A r \in DOMAIN req : r # 1 => (req[r].pc = "done" /\ req[r].class = "Duplicate")
    /\ Count(custom_metrics, "openai_requests_counter", Splunk) = 1
    /\ Count(custom_metrics, "slack_events_counter", NoAttr) = Cardinality(DOMAIN req)


----------------------------------------------------------------------------
(* Claims about header resolution *)

OnlyIngestToken ==
    /\ ~GivenDoc(environ.headers)
    /\ ~Given(environ.auth_header)
    /\ Given(environ.token)

\* C10: with the ingest token as the only header source, the headers resolved for
\* each exporter family are exactly Authorization = "Bearer <token>" and
\* x-observe-target-package = the family.
C10_TokenOnly ==
    OnlyIngestToken =>
        /\ boot # "crashed"
        /\ \A e \in DOMAIN exporters :
            /\ DOMAIN exporters[e] = {Authorization, TargetPackage}
            /\ exporters[e][Authorization] = BearerPrefix \o environ.token.v
            /\ exporters[e][TargetPackage] = PackageOf[e]

C10_Witness ==
    /\ OnlyIngestToken
    /\ boot = "serving"
    /\ DOMAIN exporters = {"logs", "traces", "metrics"}
    /\ exporters["metrics"][TargetPackage] = Metrics
    /\ exporters["logs"][TargetPackage] = HostExplorer

\* the step hands exporter e the headers resolved for it
Resolves(e) == e \in DOMAIN exporters' /\ e \notin DOMAIN exporters

\* the override diagnostic of lines 93-95 is among the records logged for e's package
Diagnosed(e, records) ==
    \E rec \in records :
        /\ rec.message = "OBSERVE_INGEST_TOKEN overrides Authorization"
        /\ rec.package = PackageOf[e]

Bearer(env) == BearerPrefix \o env.token.v

\* the bulk JSON object carries an Authorization entry other than "Bearer <token>"
BulkDiffers(env) ==
    /\ env.headers.kind = "object"
    /\ Authorization \in DOMAIN env.headers.obj
    /\ env.headers.obj[Authorization] # Bearer(env)

OverrideNamesAuthorization(env) ==
    WellFormed(env.auth_header) /\ AuthKey(env.auth_header) = Authorization

\* the single-header override names Authorization with a value other than "Bearer <token>"
OverrideDiffers(env) ==
    OverrideNamesAuthorization(env) /\ AuthValue(env.auth_header) # Bearer(env)

\* the lower layers leave, under the key Authorization, a value other than "Bearer <token>"
LowerLayersDiffer(env) ==
    IF OverrideNamesAuthorization(env) THEN OverrideDiffers(env) ELSE BulkDiffers(env)

C12_DiagnosticOnlyOnConflict ==
    [][\A e \in DOMAIN PackageOf :
        (Resolves(e) /\ Diagnosed(e, log_records'))
            => (BulkDiffers(environ) \/ OverrideDiffers(environ))]_vars

\* the value part of the single-header override as configured
ConfiguredValue(env) == Strip(Split1(env.auth_header.v, Equals)[2])

\* the override reaches the exporter under its own key: it is well formed and the
\* ingest token does not replace it
OverrideHanded(env) ==
    /\ WellFormed(env.auth_header)
    /\ ~(Given(env.token) /\ AuthKey(env.auth_header) = Authorization)

\* a text in percent-encoded form: unreserved characters and escapes only
EncodedForm(x) == \A i \in 1..Len(x) : x[i] \in Unreserved \cup {"%"}

NeedsEncoding(x) == \E i \in 1..Len(x) : x[i] \in {" ", ":", "%"}

\* the value part of the key=value text left in OTEL_EXPORTER_OTLP_HEADERS
ExposedValue(env) == Split1(env.headers.text, Equals)[2]

----------------------------------------------------------------------------
(* Claims about field extraction *)

AdaText == <<"N", "a", "m", "e", ":", " ", "A", "d", "a", ",", " ", "P", "o", "s", "i", "t", "i", "o", "n", ":", " ", "F", "o", "u", "n", "d", "e", "r", ",", " ", "C", "o", "m", "p", "e", "t", "i", "t", "o", "r", ":", " ", "R", "i", "v", "a", "l">>
Ada == <<"A", "d", "a">>
Founder == <<"F", "o", "u", "n", "d", "e", "r">>
Rival == <<"R", "i", "v", "a", "l">>

Extracted(u) == bg[u].pc # "none" /\ bg[u].fields # NoFields

\* C14: "Name: Ada, Position: Founder, Competitor: Rival" yields Ada, Founder,
\* Rival; a text in which no segment contains a recognized label yields Jack, CTO,
\* Datadog; and each field whose label is absent keeps its default, whatever the
\* other fields are.
C14_Extraction ==
    \A u \in DOMAIN bg : Extracted(u) =>
        LET text == bg[u].text
            fields == bg[u].fields
        IN  /\ text = AdaText =>
                fields = [name |-> Ada, position |-> Founder, competitor_tool |-> Rival]
            /\ (\A label \in {NameLabel, PositionLabel, CompetitorLabel} : ~Contains(text, label))
                => fields = [name |-> <<"J", "a", "c", "k">>, position |-> <<"C", "T", "O">>, competitor_tool |-> <<"D", "a", "t", "a", "d", "o", "g">>]
            /\ ~Contains(text, NameLabel) => fields.name = <<"J", "a", "c", "k">>
            /\ ~Contains(text, PositionLabel) => fields.position = <<"C", "T", "O">>
            /\ ~Contains(text, CompetitorLabel) => fields.competitor_tool = <<"D", "a", "t", "a", "d", "o", "g">>

C14_Witness ==
    \E u \in DOMAIN bg :
        /\ Extracted(u)
        /\ bg[u].text = AdaText
        /\ bg[u].fields = [name |-> Ada, position |-> Founder, competitor_tool |-> Rival]
        /\ Count(custom_metrics, "openai_requests_counter", Rival) = 1

----------------------------------------------------------------------------
(* Claims about the slash endpoint *)

IsSlash(r) == req[r].route = "slash"

CompletionReturned(u) == bg[u].completion \in {"text", "openai_error", "no_choices"}

\* the text process_user_input returns for a completion the provider may send
GeneratedTexts == { Strip(content) : content \in Completions }

\* C15: every slash command starts exactly one unit of kind slash, with no duplicate
\* suppression and no use of the registry, and is answered with the in_channel
\* acknowledgement; once the completion call has returned, the unit has posted exactly
\* one in_channel payload with the generated or fallback text to the command's own
\* response_url.
C15_SlashUnit ==
    /\ processed_events = {}
    /\ Cardinality({u \in Requests : bg[u].type = "slash"})
            = Cardinality({r \in Requests : IsSlash(r)})
    /\ Total(custom_metrics, "background_tasks_counter")
            = Cardinality({u \in Requests : bg[u].pc \notin {"none", "started"}})
    /\ \A r \in Requests : IsSlash(r) =>
        /\ bg[r].type = "slash"
        /\ bg[r].pc # "none"
        /\ bg[r].text = req[r].data.text
        /\ bg[r].calls <= 1
        /\ req[r].pc = "done" =>
            /\ req[r].resp.response_type = "in_channel"
            /\ req[r].resp.text = <<"Received: '/aisdr ">> \o req[r].data.text
                    \o <<"'\n\nProcessing your request, please wait...">>
        /\ CompletionReturned(r) =>
            /\ Len(bg[r].sent) = 1
            /\ bg[r].sent[1].api = "response_url"
            /\ bg[r].sent[1].dest = req[r].data.response_url
            /\ bg[r].sent[1].response_type = "in_channel"
            /\ bg[r].sent[1].text \in
                (IF bg[r].completion = "text" THEN GeneratedTexts ELSE Apologies)
        /\ ~CompletionReturned(r) => bg[r].sent = <<>>

C15_Witness ==
    \E q, r \in Requests :
        /\ q # r /\ IsSlash(q) /\ IsSlash(r)
        /\ req[q].data = req[r].data
        /\ req[q].pc = "done" /\ req[r].pc = "done"
        /\ bg[q].pc = "done" /\ bg[r].pc = "done"
        /\ bg[q].completion = "text" /\ bg[r].completion = "openai_error"
        /\ bg[q].sent[1].dest = "U2" /\ bg[r].sent[1].dest = "U2"

----------------------------------------------------------------------------
(* Claims about the bootstrap result and the accessors *)

Accessors == {"tracer", "meter", "custom_metrics"}

KindOf == [tracer |-> "tracer", meter |-> "meter", custom_metrics |-> "dict"]

\* the calls of an accessor first used once setup_observability had returned
CalledAfterSetup(name) ==
    IF accessed[name] # <<>> /\ accessed[name][1].at = "serving"
    THEN 1..Len(accessed[name]) ELSE {}

\* the same tracer or meter (one obtained for this module from the global provider),
\* the same dict object
SameHandle(x, y) == IF y.kind = "dict" THEN x = y ELSE x.kind = y.kind

\* C16: after setup_observability has run, get_tracer, get_meter and
\* get_custom_metrics return the tracer, meter and registry it returned, so
\* get_custom_metrics yields the nine instruments.
C16_AccessorsReturnBootstrap ==
    \A name \in Accessors : \A i \in CalledAfterSetup(name) :
        /\ SameHandle(accessed[name][i].value, handles[name])
        /\ name = "custom_metrics" => Cardinality(accessed[name][i].value.keys) = 9

\* C17: whether or not setup_observability has run, every accessor call returns a
\* value that is not None, of the accessor's kind, and the same object as the
\* accessor's previous calls returned, which is the one kept in the global.
C17_AccessorsCached ==
    \A name \in Accessors : \A i \in 1..Len(accessed[name]) :
        /\ accessed[name][i].value # None
        /\ accessed[name][i].value.kind = KindOf[name]
        /\ accessed[name][i].value = accessed[name][1].value
        /\ globals[name] = accessed[name][i].value

C17_Witness ==
    /\ Len(accessed.custom_metrics) = 2
    /\ accessed.custom_metrics[1].at = "start"
    /\ accessed.custom_metrics[2].at = "serving"
    /\ Len(accessed.tracer) = 2
    /\ accessed.tracer[1].at = "serving"
    /\ accessed.meter = <<>>

\* C18: setup_observability returns a tracer and a meter that are not None and a
\* registry whose keys are exactly the nine instrument names.
C18_NineInstruments ==
    boot = "serving" =>
        /\ handles.tracer # None /\ handles.tracer.kind = "tracer"
        /\ handles.meter # None /\ handles.meter.kind = "meter"
        /\ handles.custom_metrics.kind = "dict"
        /\ handles.custom_metrics.keys =
            { "slack_events_counter", "slack_slash_commands_counter",
              "openai_requests_counter", "openai_request_duration",
              "slack_messages_counter", "emails_generated_counter",
              "processing_errors_counter", "background_tasks_counter",
              "background_task_duration" }
        /\ DOMAIN custom_metrics = handles.custom_metrics.keys

C18_Witness ==
    /\ boot = "serving"
    /\ Given(environ.auth_header)
    /\ Cardinality(handles.custom_metrics.keys) = 9
    /\ handles.tracer.id # handles.meter.id

----------------------------------------------------------------------------
(* Claims about the three resolutions of the bootstrap *)

\* a header set without its routing tag
Untagged(headers) == [k \in DOMAIN headers \ {TargetPackage} |-> headers[k]]

\* C19: the header sets resolved for the three families, one after another from one
\* initial configuration, are equal apart from the routing tag: a header of the bulk
\* JSON reaches all three exporters or none.
C19_SameHeadersForAllFamilies ==
    \A e, f \in DOMAIN exporters : Untagged(exporters[e]) = Untagged(exporters[f])

\* the entries a higher layer writes whatever the override says
Overwritten(env) == {TargetPackage} \cup (IF Given(env.token) THEN {Authorization} ELSE {})

\* C20: with bulk JSON headers and a well-formed override both set, the override's
\* value is stored under its title-cased key, every bulk entry under another key is
\* kept, and no second entry carries the override's header name in another letter case.
C20_OverrideWinsForItsKey ==
    [][\A e \in DOMAIN PackageOf :
        (Resolves(e) /\ environ.headers.kind = "object" /\ WellFormed(environ.auth_header)) =>
            LET key == AuthKey(environ.auth_header)
                bulk == environ.headers.obj
                resolved == exporters'[e]
            IN  /\ key \notin Overwritten(environ) => resolved[key] = AuthValue(environ.auth_header)
                /\ \A k \in DOMAIN bulk \ ({key} \cup Overwritten(environ)) :
                        resolved[k] = bulk[k]
                /\ \A k \in DOMAIN resolved : Lower(k) = Lower(key) => k = key]_vars

----------------------------------------------------------------------------
(* Claims about malformed configuration *)

\* the position of setup_observability from which family e is set up
StageBefore == [logs |-> "start", traces |-> "logging", metrics |-> "tracing"]

\* the step is the setup of family e: it calls get_otlp_headers for e's package
SetsUp(e) == boot = StageBefore[e] /\ boot' # boot

\* OTEL_EXPORTER_OTLP_HEADERS holds a non-empty value that is not a JSON object
MalformedBulk(env) == GivenDoc(env.headers) /\ env.headers.kind # "object"

\* OTEL_EXPORTER_OTLP_AUTH_HEADER holds a non-empty value without '='
MalformedOverride(env) == Given(env.auth_header) /\ ~Contains(env.auth_header.v, Equals)

Warned(e, about, records) ==
    \E rec \in records :
        /\ rec.level = "warning" /\ rec.message = about /\ rec.package = PackageOf[e]

\* the header set get_otlp_headers gives for e when the environment is env
ResolvedFrom(env, e) == GetOtlpHeaders(env, PackageOf[e]).headers

NoOtherSource(env) ==
    /\ MalformedBulk(env) \/ ~GivenDoc(env.headers)
    /\ MalformedOverride(env) \/ ~Given(env.auth_header)
    /\ ~Given(env.token)

\* C21: a bulk-headers value that is not a JSON object and a single-header override
\* without '=' are never fatal: get_otlp_headers logs a warning, does not raise and
\* returns the header set it returns with that variable unset, which is the
\* placeholder Authorization and the routing tag when no other source is set.
C21_MalformedIsAbsent ==
    [][\A e \in DOMAIN PackageOf :
        (SetsUp(e) /\ (MalformedBulk(environ) \/ MalformedOverride(environ))) =>
            /\ boot' # "crashed"
            /\ e \in DOMAIN exporters'
            /\ MalformedBulk(environ) =>
                /\ Warned(e, "Invalid OTEL_EXPORTER_OTLP_HEADERS", log_records')
                /\ exporters'[e] = ResolvedFrom([environ EXCEPT !.headers = NoDoc], e)
            /\ MalformedOverride(environ) =>
                /\ Warned(e, "Invalid OTEL_EXPORTER_OTLP_AUTH_HEADER format", log_records')
                /\ exporters'[e] = ResolvedFrom([environ EXCEPT !.auth_header = Unset], e)
            /\ NoOtherSource(environ) =>
                exporters'[e] = Put(Put(EmptyDict, Authorization, Placeholder),
                                    TargetPackage, PackageOf[e])]_vars

----------------------------------------------------------------------------
(* Claims about the order of the bootstrap *)

\* the place of a stage in an order, 0 when the order does not hold it
PlaceIn(order, stage) ==
    IF \E i \in 1..Len(order) : order[i] = stage
    THEN CHOOSE i \in 1..Len(order) : order[i] = stage
    ELSE 0

\* the stages carried out so far follow the order: of two stages the order names,
\* the one carried out first comes first in it
Follows(order) ==
    \A i, j \in 1..Len(stages) :
        (i < j /\ PlaceIn(order, stages[i]) > 0 /\ PlaceIn(order, stages[j]) > 0)
            => PlaceIn(order, stages[i]) < PlaceIn(order, stages[j])

Built(stage) == PlaceIn(stages, stage) > 0

\* C22 as stated: log formatting with correlation fields, then the trace pipeline,
\* then the metric pipeline, then the log pipeline, then auto-instrumentation, then
\* registration of the business metrics.
C22_Original ==
    Follows(<<"LoggingInstrumentor", "trace_pipeline", "metric_pipeline", "log_pipeline",
              "instrument_application", "create_custom_metrics">>)

\* C22 (amended): setup_logging runs first and as a whole: log correlation fields and
\* format, then the log pipeline (log exporter and batch log processor), then the
\* formatter of the root handlers; after it the trace pipeline, then the metric
\* pipeline, then auto-instrumentation, then registration of the business metrics.
\* The log pipeline is built before the trace and metric pipelines, and a bootstrap
\* that returns has carried out every stage once.
C22_LoggingFirst ==
    /\ Follows(<<"LoggingInstrumentor", "log_pipeline", "Formatter", "trace_pipeline",
                 "metric_pipeline", "instrument_application", "create_custom_metrics">>)
    /\ \A i, j \in 1..Len(stages) : stages[i] = stages[j] => i = j
    /\ (Built("trace_pipeline") \/ Built("metric_pipeline")) => Built("log_pipeline")
    /\ Built("log_pipeline") => ("logs" \in DOMAIN exporters /\ Built("LoggingInstrumentor"))
    /\ Built("metric_pipeline") => Built("trace_pipeline")
    /\ boot = "serving" => Len(stages) = 7

C22_Witness ==
    /\ boot = "serving"
    /\ Given(environ.token)
    /\ stages[2] = "log_pipeline" /\ stages[4] = "trace_pipeline"
    /\ stages[5] = "metric_pipeline" /\ stages[7] = "create_custom_metrics"

----------------------------------------------------------------------------
(* Claims about failing units *)

\* the step in which an exception leaves unit u: the completion call or the
\* notification call raised
RaisesIn(u) ==
    \/ \E sampled \in BOOLEAN : CompletionRaises(u, sampled)
    \/ StripRaises(u)
    \/ SlackRaises(u)
    \/ PostRaises(u)

OwnErrorLabel(u) == IF bg[u].type = "event" THEN "background_process" ELSE "background_slash"

SomeUnitRaised == \E u \in Requests : bg[u].pc = "raised"

\* C23: when the completion call or the notification call raises inside a unit, the
\* unit records success=false and the error on its span, increments
\* processing_errors_counter once under its own label (background_process or
\* background_slash) and re-raises; no delivery's answer and no other unit is
\* touched, and the handlers of the deliveries in flight and of later deliveries
\* keep running.
C23_UnitFailureIsContained ==
    /\ [][\A u \in Requests : RaisesIn(u) =>
            /\ bg'[u].pc = "raised"
            /\ bg'[u].success = "false" /\ bg'[u].error # "unset"
            /\ Count(custom_metrics', "processing_errors_counter", OwnErrorLabel(u))
                    = Count(custom_metrics, "processing_errors_counter", OwnErrorLabel(u)) + 1
            /\ \A label \in {"background_process", "background_slash"} \ {OwnErrorLabel(u)} :
                    Count(custom_metrics', "processing_errors_counter", label)
                        = Count(custom_metrics, "processing_errors_counter", label)
            /\ req' = req
            /\ processed_events' = processed_events
            /\ \A v \in Requests \ {u} : bg'[v] = bg[v]]_vars
    /\ [](\A u \in Requests : bg[u].pc # "raised" => bg[u].error = "unset")
    /\ [](SomeUnitRaised =>
            \A r \in Requests :
                /\ req[r].pc \notin {"idle", "done"} => ENABLED HandlerStep(r)
                /\ NextThread(r) => ENABLED (\E data \in EventPayloads : EventsReceive(r, data))
                /\ NextThread(r) => ENABLED (\E form \in SlashForms : SlashReceive(r, form)))

C23_Witness ==
    \E u, q \in Requests :
        /\ u < q
        /\ bg[u].type = "event" /\ bg[u].pc = "raised" /\ bg[u].success = "false"
        /\ Notified(u)
        /\ req[u].pc = "done" /\ req[u].resp = Ack
        /\ bg[q].type = "slash" /\ bg[q].pc = "raised" /\ bg[q].completion = "openai_exception"
        /\ req[q].pc = "done"
        /\ Count(custom_metrics, "processing_errors_counter", "background_process") = 1
        /\ Count(custom_metrics, "processing_errors_counter", "background_slash") = 1

----------------------------------------------------------------------------
(* Claims about the instruments of a unit *)

TriggerKinds == {"event", "slash"}

\* the units of a trigger kind that have got as far as the given positions
UnitsAt(kind, positions) == {u \in DOMAIN bg : bg[u].type = kind /\ bg[u].pc \in positions}

Running == {"openai", "slack", "post", "done", "raised"}

\* the completion call of the unit has ended: it returned or it raised
CompletionEnded(u) == bg[u].completion # "none"

\* C24: every unit that has ended, on the success path and on every failure path, has
\* added one background_tasks_counter increment and one background_task_duration
\* sample under its trigger kind, and its completion call one
\* openai_requests_counter increment and one openai_request_duration sample.
C24_OneOfEachPerUnit ==
    /\ \A kind \in TriggerKinds :
        /\ Count(custom_metrics, "background_tasks_counter", kind)
                = Cardinality(UnitsAt(kind, Running))
        /\ Count(custom_metrics, "background_task_duration", kind)
                = Cardinality(UnitsAt(kind, {"done", "raised"}))
    /\ DOMAIN custom_metrics["background_tasks_counter"] \subseteq TriggerKinds
    /\ DOMAIN custom_metrics["background_task_duration"] \subseteq TriggerKinds
    /\ Total(custom_metrics, "openai_requests_counter")
            = Cardinality({u \in DOMAIN bg : bg[u].pc \in Running})
    /\ Total(custom_metrics, "openai_request_duration")
            = Cardinality({u \in DOMAIN bg : CompletionEnded(u)})

----------------------------------------------------------------------------
(* Claims about repeated labels *)

LabelOf == [name |-> NameLabel, position |-> PositionLabel, competitor_tool |-> CompetitorLabel]

FieldNames == DOMAIN LabelOf

Jack == <<"J", "a", "c", "k">>
Cto == <<"C", "T", "O">>
Datadog == <<"D", "a", "t", "a", "d", "o", "g">>

\* the field a segment is for: the first of Name, Position, Competitor it contains
FieldFor(segment) ==
    IF Contains(segment, NameLabel) THEN "name"
    ELSE IF Contains(segment, PositionLabel) THEN "position"
    ELSE IF Contains(segment, CompetitorLabel) THEN "competitor_tool"
    ELSE "none"

\* what follows the first occurrence of the label in the segment, up to its next
\* occurrence, without the surrounding white space
ValueAfter(segment, label) ==
    LET k == Find(segment, 1, label)
        rest == SubSeq(segment, k + Len(label), Len(segment))
        n == Find(rest, 1, label)
    IN  Strip(IF n = 0 THEN rest ELSE SubSeq(rest, 1, n - 1))

\* the segments of a text, cut at the commas
RECURSIVE SegmentsIn(_)
SegmentsIn(text) ==
    IF \A i \in 1..Len(text) : text[i] # ","
    THEN <<text>>
    ELSE LET k == CHOOSE i \in 1..Len(text) :
                    text[i] = "," /\ \A j \in 1..(i - 1) : text[j] # ","
         IN  <<SubSeq(text, 1, k - 1)>> \o SegmentsIn(SubSeq(text, k + 1, Len(text)))

\* the fields after the first k segments have been visited
FieldsAfter(segments, k) == ParseParts(DefaultFields, SubSeq(segments, 1, k))

Changed(before, after) == {f \in FieldNames : before[f] # after[f]}

TwoNames == <<"N", "a", "m", "e", ":", " ", "A", "d", "a", ",", "N", "a", "m", "e", ":", "B", "o", " ">>

----------------------------------------------------------------------------
(* Claims about the registry *)

\* the delivery is past the dedup step of lines 93-99: a non-handshake event
\* delivery with a non-empty identifier that was tested and added
PastDedup(r) ==
    /\ IsEvent(r)
    /\ req[r].data.challenge = Absent
    /\ req[r].data.event_id \notin {Absent, ""}
    /\ \/ req[r].pc \in {"classify", "spawned"}
       \/ req[r].class \in {"Ignored", "Actionable"}

NoIdentifier(r) == IsEvent(r) /\ req[r].data.event_id \in {Absent, ""}

\* the step is taken by a background unit
UnitSteps == bg' # bg /\ req' = req

\* C26: the registry is the set of the non-empty identifiers of the non-handshake
\* event deliveries that are past the dedup step; it only grows; a delivery without
\* an identifier, or with an empty one, never changes it and is never a Duplicate;
\* no slash handler and no unit changes it, and a slash command is never a Duplicate.
C26_RegistryIsSeenIdentifiers ==
    /\ [](processed_events = {req[r].data.event_id : r \in {q \in Requests : PastDedup(q)}})
    /\ [](\A r \in Requests :
            /\ NoIdentifier(r) => req[r].class # "Duplicate"
            /\ IsSlash(r) => (req[r].class = "Slash" /\ bg[r].type = "slash"))
    /\ [][/\ processed_events \subseteq processed_events'
          /\ \A r \in Requests :
                (Steps(r) /\ (req'[r].route = "slash" \/ req'[r].data.event_id \in {Absent, ""}))
                    => processed_events' = processed_events
          /\ UnitSteps => processed_events' = processed_events]_vars

C26_Witness ==
    \E q, r \in Requests :
        /\ PastDedup(q) /\ req[q].pc = "done" /\ req[q].data.event_id = "E2"
        /\ NoIdentifier(r) /\ req[r].pc = "done" /\ req[r].class = "Ignored"
        /\ req[r].data.event_id = ""
        /\ processed_events = {"E2"}

----------------------------------------------------------------------------
(* Claims about the accounting of the instruments *)

Requested == Total(custom_metrics, "openai_requests_counter")

Generated == Total(custom_metrics, "emails_generated_counter")

CompletionErrors ==
    Count(custom_metrics, "processing_errors_counter", "openai_error")
        + Count(custom_metrics, "processing_errors_counter", "no_choices")
        + Count(custom_metrics, "processing_errors_counter", "openai_exception")

AllUnitsOver == \A u \in DOMAIN bg : bg[u].pc \in {"none", "done", "raised"}

\* C27: under every interleaving of the units emails_generated_counter is at most
\* openai_requests_counter; once every started unit has ended,
\* openai_requests_counter equals emails_generated_counter plus the
\* processing_errors_counter increments labeled openai_error, no_choices and
\* openai_exception; slack_messages_counter equals the number of event units whose
\* completion call returned a text or an apology, and no slash unit adds to it.
C27_Accounting ==
    /\ Generated <= Requested
    /\ AllUnitsOver => Requested = Generated + CompletionErrors
    /\ Total(custom_metrics, "slack_messages_counter")
            = Cardinality({u \in DOMAIN bg : bg[u].type = "event" /\ CompletionReturned(u)})

====
